---- MODULE Spec2Model ----
(***************************************************************************)
(* Model of preprocess/cache_main.cc: a line cache wrapped around a child  *)
(* process.  The Input thread reads upstream lines, fingerprints them,     *)
(* inserts the fingerprint in the cache, forwards novel lines to the child *)
(* and passes a pointer to the cache slot through the queue.  Output (the  *)
(* main thread) consumes the pointers, reads one child line for every slot *)
(* whose data pointer is still NULL, and writes the slot's bytes.  main    *)
(* then joins Input, reaps the child and maps its wait status.             *)
(*                                                                         *)
(* A line is a sequence of one-character strings; "T" stands for the tab.  *)
(***************************************************************************)
EXTENDS Integers, Sequences, FiniteSets, TLC

(* ------------------------------ bounds --------------------------------- *)
\* Longest upstream input, in lines.
MaxInput == 3
\* kFlushRate (4096 in main) scaled down so that a flush happens mid-input.
FlushRate == 2
\* Capacity of each pipe to/from the child, in lines.
PipeCap == 1
\* Lines the child may have read and not yet answered.
MaxBacklog == 1
\* Longest generated line given to the fingerprint on its own, in bytes.
MaxLineLen == 3
\* Most tokens after argv[0] given to ParseArgs on its own.
MaxArgs == 3
\* Longest generated --key value given to the key loop on its own, in bytes.
MaxKeyLen == 4

(* ------------------------- program constants --------------------------- *)
\* std::numeric_limits<int>::max(), the start value of min.
IntMax == 2147483647
\* The value main returns when the child did not exit normally.
AbnormalStatus == 256
\* A process exit status is the low 8 bits of main's return value.
ExitModulus == 256

(* ------------------------------ inputs --------------------------------- *)
\* Upstream lines: the empty line, a one-field line and a two-field line
\* with the same first field.
InputLines == { <<>>, <<"a">>, <<"a", "T", "b">> }
\* Upstream lines of two runs that are compared: under the key 1 the last two
\* carry one fingerprint.
ForwardLines == InputLines \cup { <<"a", "T", "c">> }
\* options.key after the comma split and std::stoi; <<-1>> is the default.
KeySpecs == { <<-1>>, <<1>> }
\* options.field_separator; the default is one tab.
Separators == { <<"T">> }
\* Lines a non-identity child may answer with.
ChildLines == { <<>>, <<"X">> }
\* Exit codes a child may exit with.
ExitCodes == { 0, 7, 255 }
\* Kinds of child: "cat" echoes each line, "any" answers each line with some
\* line, "short" echoes but may exit before it has answered everything.
ChildKinds == { "cat", "any", "short" }

\* Bytes of the generated lines given to the fingerprint on its own.
LineChars == { "a", "b", "T" }
\* Lines of the scenarios: three fields under the key 1,3, and two lines whose
\* first two fields differ and concatenate to the same bytes.
ScenarioLines ==
  { << "a", "T", "x", "T", "b" >>, << "a", "T", "y", "T", "b" >>,
    << "a", "T", "x", "T", "c" >>, << "a", "b", "T", "c" >>,
    << "a", "T", "b", "c" >> }
\* Key specs given to the fingerprint on its own.
CallKeys ==
  { << -1 >>, << 0 >>, << 1 >>, << 2 >>, << 3 >>, << 5 >>, << 1, 2 >>,
    << 2, 1 >>, << 1, 3 >>, << 2, -1 >> }
\* Field separators given to the fingerprint on its own.
CallSeparators == { << "T" >>, << "T", "T" >> }

RECURSIVE SeqsUpTo(_, _)
SeqsUpTo(S, n) ==
  IF n = 0 THEN { <<>> }
  ELSE LET shorter == SeqsUpTo(S, n - 1)
       IN  shorter \cup { Append(s, x) : s \in { t \in shorter : Len(t) = n - 1 }, x \in S }

(* --------------------------- pure functions ---------------------------- *)
\* Byte value of a character, for the hash.
CharCode(c) ==
  CASE c = "a" -> 1 [] c = "b" -> 2 [] c = "c" -> 3 [] c = "T" -> 4
    [] c = "X" -> 5 [] c = "x" -> 6 [] c = "y" -> 7 [] OTHER -> 8

\* util::MurmurHashNative: a 64-bit hash of a byte range.  On the short byte
\* ranges of this model it has no collisions, so it is modelled by an
\* injective numbering of the byte range (base-9 digits 1..8).
RECURSIVE MurmurHashNative(_)
MurmurHashNative(s) ==
  IF s = <<>> THEN 0
  ELSE 9 * MurmurHashNative(SubSeq(s, 1, Len(s) - 1)) + CharCode(s[Len(s)])

\* std::string::find: the 0-based position of the first occurrence of sep in
\* s, or -1 for npos.
Find(s, sep) ==
  LET hits == { p \in 0..(Len(s) - Len(sep)) : SubSeq(s, p + 1, p + Len(sep)) = sep }
  IN  IF hits = {} THEN -1 ELSE CHOOSE p \in hits : \A r \in hits : p <= r

\* The split loop of Input: tokens before each separator, then the rest.
RECURSIVE SplitColumns(_, _)
SplitColumns(s, sep) ==
  LET pos == Find(s, sep)
  IN  IF pos = -1 THEN << s >>
      ELSE << SubSeq(s, 1, pos) >> \o SplitColumns(SubSeq(s, pos + Len(sep) + 1, Len(s)), sep)

\* The min/max loop of Input over columns_args.
RECURSIVE MinArg(_, _)
MinArg(args, min) ==
  IF args = <<>> THEN min
  ELSE MinArg(Tail(args), IF Head(args) < min THEN Head(args) ELSE min)

RECURSIVE MaxArg(_, _)
MaxArg(args, max) ==
  IF args = <<>> THEN max
  ELSE MaxArg(Tail(args), IF Head(args) > max THEN Head(args) ELSE max)

\* Mutant of HashString: the requested columns are concatenated in the order
\* of the line, not in the order of the key.
RECURSIVE HashStringLineOrder(_, _)
HashStringLineOrder(columns, args) ==
  IF columns = << >> THEN << >>
  ELSE HashStringLineOrder(SubSeq(columns, 1, Len(columns) - 1), args)
         \o (IF \E i \in 1..Len(args) : args[i] = Len(columns)
             THEN columns[Len(columns)] ELSE << >>)

\* hash_string: the requested columns concatenated in the given order.
RECURSIVE HashString(_, _)
HashString(columns, args) ==
  IF args = <<>> THEN <<>>
  ELSE columns[Head(args)] \o HashString(columns, Tail(args))

\* Mutant of Fingerprint: a line with exactly max fields falls back to the
\* whole line (<= in place of <).
FingerprintNeedsMoreFields(l, args, sep) ==
  LET columns == SplitColumns(l, sep)
      min == MinArg(args, IntMax)
      max == MaxArg(args, 0)
  IN  IF Len(columns) <= max \/ min <= 0
      THEN MurmurHashNative(l)
      ELSE MurmurHashNative(HashString(columns, args))

\* entry.first: the fingerprint of line l under the key spec.
Fingerprint(l, args, sep) ==
  LET columns == SplitColumns(l, sep)
      min == MinArg(args, IntMax)
      max == MaxArg(args, 0)
  IN  IF Len(columns) < max \/ min <= 0
      THEN MurmurHashNative(l)
      ELSE MurmurHashNative(HashString(columns, args))

(* ------------------------------- state --------------------------------- *)
VARIABLES
  input,            \* the lines upstream stdin will deliver
  columns_args,     \* the parsed --key
  field_separator,  \* options.field_separator
  childKind,        \* how the child behaves
  faulty,           \* whether a read of upstream stdin can fail
  sigchld_ignored,  \* whether the wrapper was started with SIGCHLD ignored
  proc,             \* the wrapper process: running, exited or aborted
  fatal,            \* what aborted it: none, stdin_read, child_eof, sigpipe,
                    \* waitpid
  ipc,              \* where the Input thread is
  pos,              \* upstream lines read so far
  q_entry,          \* Input's q_entry.value: a cache key, i.e. a slot pointer
  cache,            \* fingerprint -> StringPiece
  process,          \* lines buffered in the FakeOFStream to the child
  flush_count,      \* novel lines left before a forced flush
  queue,            \* the UnboundedSingleQueue of QueueEntry
  child_stdin,      \* lines in the pipe to the child
  stdin_closed,     \* process_input has been reset
  backlog,          \* lines the child has read and not yet answered
  child_stdout,     \* lines in the pipe from the child
  child,            \* running or exited
  status,           \* the child's wait status once it has exited
  opc,              \* where Output (in the main thread) is
  q,                \* Output's q.value
  string_pool,      \* TRUE once the pool owns memory (current_ is not NULL)
  out,              \* lines written to the FakeOFStream on STDOUT_FILENO
  mpc,              \* where main is after starting the workers
  exit_status,      \* the wrapper's exit status once proc is exited
  sent,             \* history: every line written to the child's stdin
  answers,          \* history: every line the child wrote
  installs,         \* history: every mark of a slot by Output, <<slot, bytes>>
  fps,              \* history: entry.first of every upstream line read
  produced,         \* history: every QueueEntry given to queue.Produce
  call,             \* the arguments of a function applied on its own
  result            \* what that application returned

vars == << input, columns_args, field_separator, childKind, faulty,
           sigchld_ignored, proc, fatal, ipc,
           pos, q_entry, cache, process, flush_count, queue, child_stdin,
           stdin_closed, backlog, child_stdout, child, status, opc, q,
           string_pool, out, mpc, exit_status, sent, answers, installs, fps,
           produced, call, result >>

envVars ==
  << input, columns_args, field_separator, childKind, faulty, sigchld_ignored,
     call, result >>
inputVars == << ipc, pos, q_entry, process, flush_count, fps, produced >>
childVars == << backlog, child, status, answers >>
outputVars == << opc, q, string_pool, out, installs >>
mainVars == << mpc, exit_status >>

\* A QueueEntry: value is NULL (poison) or points to the slot of fingerprint fp.
QueueEntry(fp) == [ null |-> FALSE, slot |-> fp ]
Poison == [ null |-> TRUE, slot |-> 0 ]

\* A StringPiece: a data pointer that may be NULL, and the bytes it spans.
StringPiece(null, bytes) == [ null |-> null, bytes |-> bytes ]
\* The default-constructed StringPiece of a fresh cache entry.
EmptyPiece == StringPiece(TRUE, <<>>)

\* util::Pool::Allocate: a pool that owns no memory yet has current_ == NULL
\* and returns it for a zero-byte request; TRUE means a NULL result.
PoolAllocate(pool, size) == size = 0 /\ ~pool

\* util::FilePiece line iteration when read() on upstream stdin fails: it
\* throws util::ErrnoException.
StdinReadFailure == "throw"

\* util::FilePiece::ReadLine at the end of the file: it throws
\* util::EndOfFileException.
ReadLineAtEOF == "throw"

\* WEXITSTATUS / the else branch of main.
MainReturn(st) == IF st.exited THEN st.code ELSE AbnormalStatus

\* The exit status the parent of the wrapper observes.
ProcessExitStatus(ret) == ret % ExitModulus

WaitStatuses == { [ exited |-> TRUE, code |-> c ] : c \in ExitCodes }
                  \cup { [ exited |-> FALSE, code |-> 0 ] }

\* No function is being applied on its own.
NoCall == [ op |-> "none" ]

\* The state of the two workers, the child and main when main has started the
\* Input thread and called Output.
WorkersStart ==
  /\ proc = "running"
  /\ fatal = "none"
  /\ ipc = "read"
  /\ pos = 0
  /\ q_entry = Poison
  /\ cache = << >>
  /\ process = << >>
  /\ flush_count = FlushRate
  /\ queue = << >>
  /\ child_stdin = << >>
  /\ stdin_closed = FALSE
  /\ backlog = << >>
  /\ child_stdout = << >>
  /\ child = "running"
  /\ status = [ exited |-> FALSE, code |-> 0 ]
  /\ opc = "consume"
  /\ q = Poison
  /\ string_pool = FALSE
  /\ out = << >>
  /\ mpc = "output"
  /\ exit_status = 0
  /\ sent = << >>
  /\ answers = << >>
  /\ installs = << >>
  /\ fps = << >>
  /\ produced = << >>

\* A run over an input of the given lines under one of the given keys.
RunOver(lines, keys) ==
  /\ input \in SeqsUpTo(lines, MaxInput)
  /\ columns_args \in keys
  /\ field_separator \in Separators
  /\ childKind \in ChildKinds
  /\ faulty \in BOOLEAN
  /\ sigchld_ignored \in BOOLEAN
  /\ call = NoCall /\ result = NoCall
  /\ WorkersStart

Init == RunOver(InputLines, KeySpecs)

(* ---------------------------- Input thread ----------------------------- *)
\* Mutant of InputLine: the line is written to the child whether or not the
\* insert created the entry.
InputLineForwardAll ==
  /\ proc = "running" /\ ipc = "read" /\ pos < Len(input)
  /\ LET l == input[pos + 1]
         fp == Fingerprint(l, columns_args, field_separator)
         isNew == fp \notin DOMAIN cache
     IN  /\ pos' = pos + 1
         /\ fps' = Append(fps, fp)
         /\ q_entry' = QueueEntry(fp)
         /\ cache' = IF isNew THEN cache @@ (fp :> EmptyPiece) ELSE cache
         /\ process' = Append(process, l)
         /\ flush_count' = flush_count - 1
         /\ ipc' = IF flush_count = 1 THEN "flush" ELSE "produce"
  /\ UNCHANGED << envVars, proc, fatal, queue, child_stdin, stdin_closed,
                  childVars, child_stdout, outputVars, mainVars, sent, produced >>

\* One pass of the for loop up to queue.Produce: fingerprint the line,
\* cache.insert, and for a new entry write the line to the child's stream.
InputLine ==
  /\ proc = "running" /\ ipc = "read" /\ pos < Len(input)
  /\ LET l == input[pos + 1]
         fp == Fingerprint(l, columns_args, field_separator)
         isNew == fp \notin DOMAIN cache
     IN  /\ pos' = pos + 1
         /\ fps' = Append(fps, fp)
         /\ q_entry' = QueueEntry(fp)
         /\ cache' = IF isNew THEN cache @@ (fp :> EmptyPiece) ELSE cache
         /\ process' = IF isNew THEN Append(process, l) ELSE process
         /\ flush_count' = IF isNew THEN flush_count - 1 ELSE flush_count
         /\ ipc' = IF isNew /\ flush_count = 1 THEN "flush" ELSE "produce"
  /\ UNCHANGED << envVars, proc, fatal, queue, child_stdin, stdin_closed, childVars,
                  child_stdout, outputVars, mainVars, sent, produced >>

\* process.Flush(), and the flush in the FakeOFStream destructor: write the
\* buffered lines to the pipe, blocking while it is full.
InputFlush ==
  /\ proc = "running" /\ ipc \in { "flush", "endflush" }
  /\ process # << >> /\ child = "running" /\ Len(child_stdin) < PipeCap
  /\ child_stdin' = Append(child_stdin, Head(process))
  /\ sent' = Append(sent, Head(process))
  /\ process' = Tail(process)
  /\ IF Len(process) > 1
     THEN UNCHANGED << ipc, flush_count >>
     ELSE IF ipc = "flush"
          THEN ipc' = "produce" /\ flush_count' = FlushRate
          ELSE ipc' = "close" /\ UNCHANGED flush_count
  /\ UNCHANGED << envVars, proc, fatal, pos, q_entry, cache, queue, stdin_closed,
                  childVars, child_stdout, outputVars, mainVars, fps, produced >>

\* A write to a pipe whose reader has exited: SIGPIPE ends the wrapper.
InputWriteFail ==
  /\ proc = "running" /\ ipc \in { "flush", "endflush" }
  /\ process # << >> /\ child = "exited"
  /\ proc' = "aborted" /\ fatal' = "sigpipe"
  /\ UNCHANGED << envVars, inputVars, cache, queue, child_stdin, stdin_closed,
                  childVars, child_stdout, outputVars, mainVars, sent >>

\* queue.Produce(q_entry) at the end of the loop body.
InputProduce ==
  /\ proc = "running" /\ ipc = "produce"
  /\ queue' = Append(queue, q_entry)
  /\ produced' = Append(produced, q_entry)
  /\ ipc' = "read"
  /\ UNCHANGED << envVars, proc, fatal, pos, q_entry, cache, process, flush_count,
                  child_stdin, stdin_closed, childVars, child_stdout,
                  outputVars, mainVars, sent, fps >>

\* Upstream end of file: the loop ends and the stream's scope closes.
InputEOF ==
  /\ proc = "running" /\ ipc = "read" /\ pos = Len(input)
  /\ ipc' = IF process = << >> THEN "close" ELSE "endflush"
  /\ UNCHANGED << envVars, proc, fatal, pos, q_entry, cache, process, flush_count,
                  queue, child_stdin, stdin_closed, childVars, child_stdout,
                  outputVars, mainVars, sent, fps, produced >>

\* A failed read of upstream stdin throws out of the loop.  Input has no
\* handler and runs as the body of a std::thread, so the process terminates.
InputReadError ==
  /\ proc = "running" /\ ipc = "read" /\ faulty
  /\ StdinReadFailure = "throw"
  /\ proc' = "aborted" /\ fatal' = "stdin_read"
  /\ UNCHANGED << envVars, inputVars, cache, queue, child_stdin, stdin_closed,
                  childVars, child_stdout, outputVars, mainVars, sent >>

\* Mutant of InputClose: the child's standard input is left open.
InputCloseKeepsOpen ==
  /\ proc = "running" /\ ipc = "close"
  /\ ipc' = "poison"
  /\ UNCHANGED << envVars, proc, fatal, pos, q_entry, cache, process, flush_count,
                  queue, child_stdin, stdin_closed, childVars, child_stdout,
                  outputVars, mainVars, sent, fps, produced >>

\* process_input.reset()
InputClose ==
  /\ proc = "running" /\ ipc = "close"
  /\ stdin_closed' = TRUE
  /\ ipc' = "poison"
  /\ UNCHANGED << envVars, proc, fatal, pos, q_entry, cache, process, flush_count,
                  queue, child_stdin, childVars, child_stdout, outputVars,
                  mainVars, sent, fps, produced >>

\* q_entry.value = NULL; queue.Produce(q_entry)
InputPoison ==
  /\ proc = "running" /\ ipc = "poison"
  /\ q_entry' = Poison
  /\ queue' = Append(queue, Poison)
  /\ produced' = Append(produced, Poison)
  /\ ipc' = "done"
  /\ UNCHANGED << envVars, proc, fatal, pos, cache, process, flush_count, child_stdin,
                  stdin_closed, childVars, child_stdout, outputVars, mainVars,
                  sent, fps >>

(* ------------------------------ the child ------------------------------ *)
\* What the child may answer to a line.
Responses(kind, l) == IF kind = "any" THEN ChildLines ELSE { l }

\* The child reads one line from its standard input.
ChildRead ==
  /\ proc = "running" /\ child = "running"
  /\ child_stdin # << >> /\ Len(backlog) < MaxBacklog
  /\ backlog' = Append(backlog, Head(child_stdin))
  /\ child_stdin' = Tail(child_stdin)
  /\ UNCHANGED << envVars, proc, fatal, inputVars, cache, queue, stdin_closed,
                  child_stdout, child, status, answers, outputVars, mainVars,
                  sent >>

\* The child writes its line for the oldest line it has read.
ChildWrite ==
  /\ proc = "running" /\ child = "running"
  /\ backlog # << >> /\ Len(child_stdout) < PipeCap
  /\ \E r \in Responses(childKind, Head(backlog)) :
       /\ child_stdout' = Append(child_stdout, r)
       /\ answers' = Append(answers, r)
  /\ backlog' = Tail(backlog)
  /\ UNCHANGED << envVars, proc, fatal, inputVars, cache, queue, child_stdin,
                  stdin_closed, child, status, outputVars, mainVars, sent >>

\* The child has answered everything and sees the end of its input.
ChildAtEOF == stdin_closed /\ child_stdin = << >> /\ backlog = << >>

\* The child ends after the end of its input, normally or by a signal.
ChildExit ==
  /\ proc = "running" /\ child = "running" /\ ChildAtEOF
  /\ child' = "exited"
  /\ status' \in WaitStatuses
  /\ UNCHANGED << envVars, proc, fatal, inputVars, cache, queue, child_stdin,
                  stdin_closed, backlog, child_stdout, answers, outputVars,
                  mainVars, sent >>

\* A child that breaks the contract ends with lines unread or unanswered.
ChildQuit ==
  /\ proc = "running" /\ child = "running" /\ childKind = "short"
  /\ ~ChildAtEOF
  /\ child' = "exited"
  /\ status' \in WaitStatuses
  /\ UNCHANGED << envVars, proc, fatal, inputVars, cache, queue, child_stdin,
                  stdin_closed, backlog, child_stdout, answers, outputVars,
                  mainVars, sent >>

(* ------------------------- Output and main ----------------------------- *)
\* Mutant of OutputConsume: the write to out sits inside the branch for new
\* entries, so a cached entry is consumed without being written.
OutputConsumeSkipCached ==
  /\ proc = "running" /\ opc = "consume" /\ queue # << >>
  /\ q' = Head(queue)
  /\ queue' = Tail(queue)
  /\ opc' = IF Head(queue).null THEN "done"
            ELSE IF cache[Head(queue).slot].null THEN "readline" ELSE "consume"
  /\ UNCHANGED << envVars, proc, fatal, inputVars, cache, child_stdin,
                  stdin_closed, childVars, child_stdout, string_pool, out,
                  installs, mainVars, sent >>

\* Mutant of OutputConsume: a line is read from the child for every handle,
\* whether or not its slot holds a value.
OutputConsumeAlwaysRead ==
  /\ proc = "running" /\ opc = "consume" /\ queue # << >>
  /\ q' = Head(queue)
  /\ queue' = Tail(queue)
  /\ opc' = IF Head(queue).null THEN "done" ELSE "readline"
  /\ UNCHANGED << envVars, proc, fatal, inputVars, cache, child_stdin,
                  stdin_closed, childVars, child_stdout, string_pool, out,
                  installs, mainVars, sent >>

\* queue.Consume(q), the loop test and the test of value.data().
OutputConsume ==
  /\ proc = "running" /\ opc = "consume" /\ queue # << >>
  /\ q' = Head(queue)
  /\ queue' = Tail(queue)
  /\ opc' = IF Head(queue).null THEN "done"
            ELSE IF cache[Head(queue).slot].null THEN "readline" ELSE "emit"
  /\ UNCHANGED << envVars, proc, fatal, inputVars, cache, child_stdin, stdin_closed,
                  childVars, child_stdout, string_pool, out, installs,
                  mainVars, sent >>

\* in.ReadLine(), the copy into the pool and the assignment to the slot.
OutputReadLine ==
  /\ proc = "running" /\ opc = "readline" /\ child_stdout # << >>
  /\ LET got == Head(child_stdout)
         copy_to == PoolAllocate(string_pool, Len(got))
     IN  /\ cache' = [ cache EXCEPT ![q.slot] = StringPiece(copy_to, got) ]
         /\ string_pool' = (string_pool \/ Len(got) > 0)
         /\ installs' = Append(installs, << q.slot, got >>)
  /\ child_stdout' = Tail(child_stdout)
  /\ opc' = "emit"
  /\ UNCHANGED << envVars, proc, fatal, inputVars, queue, child_stdin, stdin_closed,
                  childVars, q, out, mainVars, sent >>

\* Mutant of OutputReadEOF: the end of the child's output is taken as an
\* empty line, which is stored in the slot and written.
OutputReadEOFAsEmptyLine ==
  /\ proc = "running" /\ opc = "readline"
  /\ child_stdout = << >> /\ child = "exited"
  /\ cache' = [ cache EXCEPT ![q.slot] = StringPiece(FALSE, << >>) ]
  /\ installs' = Append(installs, << q.slot, << >> >>)
  /\ opc' = "emit"
  /\ UNCHANGED << envVars, proc, fatal, inputVars, queue, child_stdin,
                  stdin_closed, childVars, child_stdout, q, string_pool, out,
                  mainVars, sent >>

\* in.ReadLine() at the end of the child's output throws; nothing in Output
\* or main catches it, so the process terminates.
OutputReadEOF ==
  /\ proc = "running" /\ opc = "readline"
  /\ child_stdout = << >> /\ child = "exited"
  /\ ReadLineAtEOF = "throw"
  /\ proc' = "aborted" /\ fatal' = "child_eof"
  /\ UNCHANGED << envVars, inputVars, cache, queue, child_stdin, stdin_closed,
                  childVars, child_stdout, outputVars, mainVars, sent >>

\* out << value << '\n'
OutputEmit ==
  /\ proc = "running" /\ opc = "emit"
  /\ out' = Append(out, cache[q.slot].bytes)
  /\ opc' = "consume"
  /\ UNCHANGED << envVars, proc, fatal, inputVars, cache, queue, child_stdin,
                  stdin_closed, childVars, child_stdout, q, string_pool,
                  installs, mainVars, sent >>

\* Output has returned; input.join() returns once Input has.
MainJoin ==
  /\ proc = "running" /\ mpc = "output" /\ opc = "done" /\ ipc = "done"
  /\ mpc' = "waitpid"
  /\ UNCHANGED << envVars, proc, fatal, inputVars, cache, queue, child_stdin,
                  stdin_closed, childVars, child_stdout, outputVars,
                  exit_status, sent >>

\* waitpid and the mapping of the wait status to main's return value.  With
\* SIGCHLD ignored the kernel reaps the child itself: waitpid returns -1 once
\* the child has ended, and the exception thrown for it leaves main.
MainWait ==
  /\ proc = "running" /\ mpc = "waitpid" /\ child = "exited"
  /\ IF sigchld_ignored
     THEN /\ proc' = "aborted" /\ fatal' = "waitpid"
          /\ UNCHANGED mainVars
     ELSE /\ mpc' = "returned"
          /\ exit_status' = ProcessExitStatus(MainReturn(status))
          /\ proc' = "exited"
          /\ UNCHANGED fatal
  /\ UNCHANGED << envVars, inputVars, cache, queue, child_stdin, stdin_closed,
                  childVars, child_stdout, outputVars, sent >>

Next ==
  \/ InputLine \/ InputFlush \/ InputWriteFail \/ InputProduce \/ InputEOF
  \/ InputReadError \/ InputClose \/ InputPoison
  \/ ChildRead \/ ChildWrite \/ ChildExit \/ ChildQuit
  \/ OutputConsume \/ OutputReadLine \/ OutputReadEOF \/ OutputEmit
  \/ MainJoin \/ MainWait

Spec == Init /\ [][Next]_vars

\* Runs under the key 1,2 over two lines whose first two fields differ and
\* concatenate to the same bytes, and a line of one field.
ConcatLines == { << "a", "b", "T", "c" >>, << "a", "T", "b", "c" >>, << "a" >> }
ConcatKeys == { << 1, 2 >> }
ConcatInit == RunOver(ConcatLines, ConcatKeys)
ConcatSpec == ConcatInit /\ [][Next]_vars

(* -------------------- functions applied on their own -------------------- *)
\* Everything but call and result.
workerVars ==
  << input, columns_args, field_separator, childKind, faulty,
     sigchld_ignored, proc, fatal, ipc, pos, q_entry, cache, process, flush_count, queue, child_stdin,
     stdin_closed, backlog, child_stdout, child, status, opc, q, string_pool,
     out, mpc, exit_status, sent, answers, installs, fps, produced >>

\* The workers do not run while a function is applied on its own.
WorkersIdle ==
  /\ input = << >> /\ columns_args = << -1 >> /\ field_separator = << "T" >>
  /\ childKind = "cat" /\ faulty = FALSE /\ sigchld_ignored = FALSE
  /\ WorkersStart

\* The lines given to the fingerprint on its own.
CallLines == SeqsUpTo(LineChars, MaxLineLen) \cup ScenarioLines

\* Two lines, a key spec and a separator for the fingerprint.
FingerprintCalls ==
  [ op : { "Fingerprint" }, l1 : CallLines, l2 : CallLines, args : CallKeys,
    sep : CallSeparators ]

\* The fingerprint step of the loop body of Input, applied to two lines.
ApplyFingerprint ==
  /\ call.op = "Fingerprint" /\ result = NoCall
  /\ result' = [ op |-> "Fingerprint",
                 fp1 |-> Fingerprint(call.l1, call.args, call.sep),
                 fp2 |-> Fingerprint(call.l2, call.args, call.sep) ]
  /\ UNCHANGED << workerVars, call >>

\* Mutant of Forward: every line is written to the child.
ForwardEveryLine(lines, args, sep, seen) == lines

\* The loop of Input over a whole input: the lines written to the child, which
\* are those whose fingerprint cache.insert had not seen.
RECURSIVE Forward(_, _, _, _)
Forward(lines, args, sep, seen) ==
  IF lines = << >> THEN << >>
  ELSE LET fp == Fingerprint(Head(lines), args, sep)
       IN  IF fp \in seen
           THEN Forward(Tail(lines), args, sep, seen)
           ELSE << Head(lines) >> \o Forward(Tail(lines), args, sep, seen \cup { fp })

\* Two inputs and a key spec for two runs of the loop of Input.
ForwardCalls ==
  [ op : { "Forward" }, in1 : SeqsUpTo(ForwardLines, MaxInput),
    in2 : SeqsUpTo(ForwardLines, MaxInput), args : KeySpecs, sep : Separators ]

\* Two runs of the loop of Input, each from an empty cache.
ApplyForward ==
  /\ call.op = "Forward" /\ result = NoCall
  /\ result' = [ op |-> "Forward",
                 fwd1 |-> Forward(call.in1, call.args, call.sep, { }),
                 fwd2 |-> Forward(call.in2, call.args, call.sep, { }) ]
  /\ UNCHANGED << workerVars, call >>


(* ------------------------------ start of main ---------------------------- *)
\* Command-line tokens, as byte sequences.
Cache == << "c", "a", "c", "h", "e" >>
OptK == << "-", "k" >>
OptT == << "-", "t" >>
OptKey == << "-", "-", "k", "e", "y" >>
OptFieldSeparator ==
  << "-", "-", "f", "i", "e", "l", "d", "_", "s", "e", "p", "a", "r", "a",
     "t", "o", "r" >>
DashDash == << "-", "-" >>
Cat == << "c", "a", "t" >>
Sort == << "s", "o", "r", "t" >>
DashN == << "-", "n" >>
\* The defaults of the option table.
DefaultKey == << "-", "1" >>
DefaultFieldSeparator == << "T" >>

\* The tokens main compares argv[1] and argv[3] with.
IsWrapperOption(tok) == tok \in { OptK, OptT, OptKey, OptFieldSeparator }

\* Values given to --key: well formed ones, and ones with a non-integer element.
KeyValues ==
  { << "1" >>, << "1", ",", "3" >>, << "x" >>, << "1", "x" >>,
    << "1", ",", "x" >>, << "1", "," >> }
\* Values given to --field_separator.
SeparatorValues == { << "T" >>, << "," >> }
\* Child commands; the second and third hold a token that is also the name of
\* a wrapper option.
ChildCommands ==
  { << Cat >>, << Sort, DashN, OptK, << "2" >> >>,
    << Sort, << "x" >>, OptT, << "," >> >> }
\* The wrapper's options of an invocation: none, one, or both in either order.
KeyOptions == { << n, v >> : n \in { OptK, OptKey }, v \in KeyValues }
SeparatorOptions ==
  { << n, v >> : n \in { OptT, OptFieldSeparator }, v \in SeparatorValues }
WrapperOptions ==
  { << >> } \cup KeyOptions \cup SeparatorOptions
    \cup { k \o t : k \in KeyOptions, t \in SeparatorOptions }
    \cup { t \o k : k \in KeyOptions, t \in SeparatorOptions }
\* Invocations cache [options] [--] CHILD [CHILD_ARGS...]; the ghost fields
\* remember which part is which.
MainCalls ==
  { [ op |-> "main", argv |-> << Cache >> \o o \o d \o c, options |-> o,
      command |-> c ] :
      o \in WrapperOptions, d \in { << >>, << DashDash >> }, c \in ChildCommands }

\* skip_args: main's scan of argv[1] and argv[3] (argv[2] and argv[4] here,
\* sequences being 1-based).
SkipArgs(argv) ==
  1 + (IF IsWrapperOption(argv[2]) THEN 2 ELSE 0)
    + (IF Len(argv) > 3 /\ IsWrapperOption(argv[4]) THEN 2 ELSE 0)

\* A token starts with a prefix.
StartsWith(tok, pre) == Len(tok) >= Len(pre) /\ SubSeq(tok, 1, Len(pre)) = pre
\* The long names of the option table.
KeyName == SubSeq(OptKey, 3, Len(OptKey))
FieldSeparatorName == SubSeq(OptFieldSeparator, 3, Len(OptFieldSeparator))

\* How parse_command_line reads one token in its default style: -- ends the
\* options; --NAME and --NAME=VALUE name a long option, NAME being the long
\* name, a prefix of it, or the short name with its dash (---k); a long token
\* with nothing after its = is invalid, and one with no name before its = is
\* dropped like a positional token.  -k, -t, -kVALUE and -tVALUE name a short
\* option; any other token that starts with - is an unknown option, and the
\* rest is positional.
Token(tok) ==
  LET body == SubSeq(tok, 3, Len(tok))
      eq == Find(body, << "=" >>)
      name == IF eq = -1 THEN body ELSE SubSeq(body, 1, eq)
      long == [ adjacent |-> eq # -1,
                value |-> IF eq = -1 THEN << >> ELSE SubSeq(body, eq + 2, Len(body)) ]
      short == [ adjacent |-> Len(tok) > 2, value |-> SubSeq(tok, 3, Len(tok)) ]
  IN  IF tok = DashDash THEN [ kind |-> "end" ]
      ELSE IF StartsWith(tok, DashDash) THEN
        IF eq # -1 /\ long.value = << >> THEN [ kind |-> "invalid" ]
        ELSE IF name = << >> THEN [ kind |-> "positional" ]
        ELSE IF StartsWith(KeyName, name) \/ name = OptK
        THEN [ kind |-> "key" ] @@ long
        ELSE IF StartsWith(FieldSeparatorName, name) \/ name = OptT
        THEN [ kind |-> "field_separator" ] @@ long
        ELSE [ kind |-> "unknown" ]
      ELSE IF Len(tok) > 1 /\ tok[1] = "-" THEN
        IF tok[2] = "k" THEN [ kind |-> "key" ] @@ short
        ELSE IF tok[2] = "t" THEN [ kind |-> "field_separator" ] @@ short
        ELSE [ kind |-> "unknown" ]
      ELSE [ kind |-> "positional" ]

\* ParseArgs over the tokens args[i..]: an option takes its value from its own
\* token or from the next one; it throws for an unknown or invalid token, for
\* an option given twice, for an option without a value, and when the token
\* taken as the value is invalid or the short spelling of an option of the
\* table.  Positional tokens are ignored.  seen holds the options met so far.
RECURSIVE ParseArgs(_, _, _, _)
ParseArgs(args, i, options, seen) ==
  IF i > Len(args) THEN [ ok |-> TRUE, opt |-> options ]
  ELSE LET t == Token(args[i])
       IN  IF t.kind = "end" THEN [ ok |-> TRUE, opt |-> options ]
           ELSE IF t.kind \in { "unknown", "invalid" }
           THEN [ ok |-> FALSE, opt |-> options ]
           ELSE IF t.kind = "positional" THEN ParseArgs(args, i + 1, options, seen)
           ELSE IF t.kind \in seen THEN [ ok |-> FALSE, opt |-> options ]
           ELSE IF t.adjacent
           THEN ParseArgs(args, i + 1, [ options EXCEPT ![t.kind] = t.value ],
                          seen \cup { t.kind })
           ELSE IF \/ i = Len(args)
                   \/ args[i + 1] \in { OptK, OptT }
                   \/ Token(args[i + 1]).kind = "invalid"
           THEN [ ok |-> FALSE, opt |-> options ]
           ELSE ParseArgs(args, i + 2, [ options EXCEPT ![t.kind] = args[i + 1] ],
                          seen \cup { t.kind })

\* std::stoi: white space is skipped, then an optional sign, then the longest
\* run of digits; what follows the digits is ignored.  A token without a
\* digit there throws, and so does a value that does not fit an int.
\* White space is the space, the tab (T, as in the lines), the line feed, the
\* vertical tab (V), the form feed and the carriage return.
IsSpace(c) == c \in { " ", "T", "\t", "\n", "V", "\f", "\r" }
IsDigit(c) == c \in { "0", "1", "2", "3", "4", "5", "6", "7", "8", "9" }
DigitValue(c) ==
  CASE c = "0" -> 0 [] c = "1" -> 1 [] c = "2" -> 2 [] c = "3" -> 3
    [] c = "4" -> 4 [] c = "5" -> 5 [] c = "6" -> 6 [] c = "7" -> 7
    [] c = "8" -> 8 [] OTHER -> 9
\* The position of the first byte of tok at or after i that is no white space.
RECURSIVE SkipSpace(_, _)
SkipSpace(tok, i) ==
  IF i <= Len(tok) /\ IsSpace(tok[i]) THEN SkipSpace(tok, i + 1) ELSE i
\* The magnitude of the digits of tok from i on, given that of the digits
\* before: a number up to IntMax, -1 for IntMax + 1, -2 for anything greater.
RECURSIVE Digits(_, _, _)
Digits(tok, i, acc) ==
  IF i <= Len(tok) /\ IsDigit(tok[i])
  THEN LET d == DigitValue(tok[i])
           next == IF acc < 0 THEN -2
                   ELSE IF acc < (IntMax \div 10)
                           \/ (acc = (IntMax \div 10) /\ d <= (IntMax % 10))
                   THEN 10 * acc + d
                   ELSE IF acc = (IntMax \div 10) /\ d = (IntMax % 10) + 1 THEN -1
                   ELSE -2
       IN  Digits(tok, i + 1, next)
  ELSE acc
Stoi(tok) ==
  LET start == SkipSpace(tok, 1)
      signed == start <= Len(tok) /\ tok[start] \in { "-", "+" }
      negative == signed /\ tok[start] = "-"
      first == IF signed THEN start + 1 ELSE start
      magnitude == Digits(tok, first, 0)
  IN  IF ~(first <= Len(tok) /\ IsDigit(tok[first]))
      THEN [ ok |-> FALSE, value |-> 0 ]
      ELSE IF magnitude >= 0
      THEN [ ok |-> TRUE, value |-> IF negative THEN 0 - magnitude ELSE magnitude ]
      ELSE IF magnitude = -1 /\ negative
      THEN [ ok |-> TRUE, value |-> 0 - IntMax - 1 ]
      ELSE [ ok |-> FALSE, value |-> 0 ]

\* The key loop of Input: every token before a comma goes through std::stoi,
\* then the rest does; the first token std::stoi rejects throws.
RECURSIVE ColumnsArgs(_, _)
ColumnsArgs(s_args, columns) ==
  LET pos_args == Find(s_args, << "," >>)
      token_args == IF pos_args = -1 THEN s_args ELSE SubSeq(s_args, 1, pos_args)
      int_token_args == Stoi(token_args)
  IN  IF ~int_token_args.ok THEN [ ok |-> FALSE, value |-> columns ]
      ELSE IF pos_args = -1
      THEN [ ok |-> TRUE, value |-> Append(columns, int_token_args.value) ]
      ELSE ColumnsArgs(SubSeq(s_args, pos_args + 2, Len(s_args)),
                       Append(columns, int_token_args.value))

\* The names execvp finds.
Executables == { Cat, Sort }

\* main up to the comparison of argv[1] and argv[3].
MainScan ==
  /\ call.op = "main" /\ result = NoCall
  /\ result' = [ op |-> "main", pc |-> "scanned",
                 skip_args |-> SkipArgs(call.argv), partArgs |-> << >>,
                 opt |-> [ key |-> DefaultKey,
                           field_separator |-> DefaultFieldSeparator ],
                 launched |-> FALSE, child_argv |-> << >>, exec |-> "none",
                 columns_args |-> << >> ]
  /\ UNCHANGED << workerVars, call >>

\* std::copy of argv[0..skip_args] into partArgs, which holds skip_args
\* pointers: the last write is past the end of the array.  Here the write
\* lands on nothing that is used.
MainCopyArgs ==
  /\ result.op = "main" /\ result.pc = "scanned"
  /\ result' = [ result EXCEPT !.pc = "copied",
                   !.partArgs = SubSeq(call.argv, 1, result.skip_args) ]
  /\ UNCHANGED << workerVars, call >>

\* The same write past the end of partArgs, caught or fatal: the process dies.
MainCopyArgsOverflow ==
  /\ result.op = "main" /\ result.pc = "scanned"
  /\ result' = [ result EXCEPT !.pc = "aborted" ]
  /\ UNCHANGED << workerVars, call >>

\* ParseArgs(skip_args, partArgs, opt); an exception of the parser leaves main.
MainParseArgs ==
  /\ result.op = "main" /\ result.pc = "copied"
  /\ LET r == ParseArgs(result.partArgs, 2, result.opt, { })
     IN  result' = IF r.ok THEN [ result EXCEPT !.pc = "parsed", !.opt = r.opt ]
                   ELSE [ result EXCEPT !.pc = "terminated" ]
  /\ UNCHANGED << workerVars, call >>

\* Launch(argv + skip_args) in the parent: the pipes are made and the child
\* is forked; the parent goes on at once.
MainLaunch ==
  /\ result.op = "main" /\ result.pc = "parsed"
  /\ result' = [ result EXCEPT !.pc = "launched", !.launched = TRUE,
                   !.child_argv = SubSeq(call.argv, result.skip_args + 1,
                                         Len(call.argv)),
                   !.exec = "forked" ]
  /\ UNCHANGED << workerVars, call >>

\* pipe or fork fails in Launch: the exception leaves main, no child exists.
MainLaunchFails ==
  /\ result.op = "main" /\ result.pc = "parsed"
  /\ result' = [ result EXCEPT !.pc = "terminated" ]
  /\ UNCHANGED << workerVars, call >>

\* The forked child: execvp(argv[0], argv), and abort when it fails.
ChildExec ==
  /\ result.op = "main" /\ result.exec = "forked"
  /\ result' = [ result EXCEPT
                   !.exec = IF result.child_argv[1] \in Executables
                            THEN "running" ELSE "exec failed" ]
  /\ UNCHANGED << workerVars, call >>

\* The forked child: dup2 fails, the exception ends the child before the exec.
ChildDup2Fails ==
  /\ result.op = "main" /\ result.exec = "forked"
  /\ result' = [ result EXCEPT !.exec = "aborted" ]
  /\ UNCHANGED << workerVars, call >>

\* The parent has died: the child, which asked for SIGTERM on the death of
\* its parent, is ended, before or after its exec.  (A child that had not
\* asked yet when the parent died goes on to its exec.)
ChildParentDeath ==
  /\ result.op = "main" /\ result.pc = "terminated"
  /\ result.exec \in { "forked", "running" }
  /\ result' = [ result EXCEPT !.exec = "killed" ]
  /\ UNCHANGED << workerVars, call >>

\* The start of Input in its thread: the key is parsed; an exception of
\* std::stoi ends the process there.
InputParseKey ==
  /\ result.op = "main" /\ result.pc = "launched"
  /\ LET r == ColumnsArgs(result.opt.key, << >>)
     IN  result' = IF r.ok
                   THEN [ result EXCEPT !.pc = "reading", !.columns_args = r.value ]
                   ELSE [ result EXCEPT !.pc = "terminated" ]
  /\ UNCHANGED << workerVars, call >>

MainInit == call \in MainCalls /\ result = NoCall /\ WorkersIdle

MainNext ==
  \/ MainScan \/ MainCopyArgs \/ MainCopyArgsOverflow \/ MainParseArgs
  \/ MainLaunch \/ MainLaunchFails \/ InputParseKey
  \/ ChildExec \/ ChildDup2Fails \/ ChildParentDeath

MainSpec == MainInit /\ [][MainNext]_vars

(* ---------------- the parsers of the start applied on their own ---------- *)
\* Tokens given to ParseArgs: options in every spelling, values, an unknown
\* option and the terminator.
ArgTokens ==
  { OptK, OptT, OptKey, << "-", "-", "k", "e" >>,
    << "-", "-", "k", "e", "y", "=", "1" >>, << "-", "k", "1" >>,
    << "-", "-", "k", "e", "y", "=" >>, << "-", "-", "=", "1" >>,
    << "-", "-", "-", "k" >>,
    << "-", "-", "f", "i", "e", "l", "d" >>, << "1" >>, DashN, DashDash }
ParseArgsCalls ==
  [ op : { "ParseArgs" },
    args : { << Cache >> \o a : a \in SeqsUpTo(ArgTokens, MaxArgs) } ]

\* ParseArgs(argc, argv, opt) on its own.
ApplyParseArgs ==
  /\ call.op = "ParseArgs" /\ result = NoCall
  /\ result' = [ op |-> "ParseArgs" ]
                 @@ ParseArgs(call.args, 2,
                              [ key |-> DefaultKey,
                                field_separator |-> DefaultFieldSeparator ], { })
  /\ UNCHANGED << workerVars, call >>

\* Bytes of the generated --key values, and values at the ends of int.
KeyChars == { "1", "9", "-", " ", "T", "\n", ",", "x" }
LongKeys ==
  { << "2", "1", "4", "7", "4", "8", "3", "6", "4", "7" >>,
    << "2", "1", "4", "7", "4", "8", "3", "6", "4", "8" >>,
    << "-", "2", "1", "4", "7", "4", "8", "3", "6", "4", "8" >>,
    << "-", "2", "1", "4", "7", "4", "8", "3", "6", "4", "9" >>,
    << "9", "9", "9", "9", "9", "9", "9", "9", "9", "9", "9" >>,
    << "1", ",", "9", "9", "9", "9", "9", "9", "9", "9", "9", "9", "9" >> }
ColumnsArgsCalls ==
  [ op : { "ColumnsArgs" }, key : SeqsUpTo(KeyChars, MaxKeyLen) \cup LongKeys ]

\* The key loop of Input on its own.
ApplyColumnsArgs ==
  /\ call.op = "ColumnsArgs" /\ result = NoCall
  /\ result' = [ op |-> "ColumnsArgs" ] @@ ColumnsArgs(call.key, << >>)
  /\ UNCHANGED << workerVars, call >>

CallInit ==
  /\ call \in FingerprintCalls \cup ForwardCalls \cup ParseArgsCalls
              \cup ColumnsArgsCalls
  /\ result = NoCall
  /\ WorkersIdle

CallNext ==
  ApplyFingerprint \/ ApplyForward \/ ApplyParseArgs \/ ApplyColumnsArgs

CallSpec == CallInit /\ [][CallNext]_vars

TypeOK ==
  /\ proc \in { "running", "exited", "aborted" }
  /\ fatal \in { "none", "stdin_read", "child_eof", "sigpipe", "waitpid" }
  /\ (proc = "aborted") = (fatal # "none")
  /\ ipc \in { "read", "flush", "produce", "endflush", "close", "poison", "done" }
  /\ opc \in { "consume", "readline", "emit", "done" }
  /\ mpc \in { "output", "waitpid", "returned" }
  /\ pos \in 0..Len(input)
  /\ flush_count \in 1..FlushRate \/ (flush_count = 0 /\ ipc = "flush")
  /\ Len(child_stdin) <= PipeCap /\ Len(child_stdout) <= PipeCap
  /\ Len(backlog) <= MaxBacklog

(* ---------------------- vocabulary of the claims ------------------------ *)
\* Index of the first line with the fingerprint of line i, given fingerprints f.
FirstIdx(f, i) == CHOOSE j \in 1..i : f[j] = f[i] /\ \A k \in 1..(j - 1) : f[k] # f[i]
\* Line i is novel: no earlier line has its fingerprint.
IsNovel(f, i) == \A k \in 1..(i - 1) : f[k] # f[i]
\* How many novel lines there are among the first i lines.
NovelCount(f, i) == Cardinality({ j \in 1..i : IsNovel(f, j) })
\* The novel lines among the first n upstream lines, in input order.
RECURSIVE NovelLines(_, _)
NovelLines(f, n) ==
  IF n = 0 THEN << >>
  ELSE IF IsNovel(f, n) THEN Append(NovelLines(f, n - 1), input[n])
       ELSE NovelLines(f, n - 1)
\* s is a prefix of t.
IsPrefix(s, t) == Len(s) <= Len(t) /\ s = SubSeq(t, 1, Len(s))
\* The child answers every line it receives with exactly one line and ends
\* only at the end of its input.
ContractChild == childKind # "short"
\* The child's answer to the first line that carries the fingerprint of line i.
AnswerFor(f, i) == answers[NovelCount(f, FirstIdx(f, i))]

(* ------------------------------- claims -------------------------------- *)
\* C1: cache hit correctness.  With a child that answers each line with one
\* line, two emitted positions i < j whose input lines have the same
\* fingerprint carry the same output line, namely the child's answer to the
\* first line with that fingerprint, and no fingerprint reaches the child's
\* standard input twice.
C1_CacheHitCorrectness ==
  ContractChild =>
    LET f == fps
    IN  /\ \A j \in 1..Len(out) : \A i \in 1..(j - 1) :
             f[i] = f[j] => out[i] = out[j] /\ out[j] = AnswerFor(f, j)
        /\ \A a \in 1..Len(sent) : \A b \in 1..(a - 1) :
             Fingerprint(sent[a], columns_args, field_separator)
               # Fingerprint(sent[b], columns_args, field_separator)

\* C2: order preservation.  With a contract-obeying child, under every
\* interleaving the i-th line written downstream is the child's answer for the
\* fingerprint of the i-th input line.
C2_OrderPreservation ==
  ContractChild => LET f == fps IN \A i \in 1..Len(out) : out[i] = AnswerFor(f, i)

\* C3: output count equals input count.  When a run with a contract-obeying
\* child completes, exactly as many lines were written as were read.
C3_OutputCount ==
  (ContractChild /\ proc = "exited") => Len(out) = Len(input)

\* A completed run over an input with a repeated fingerprint.
C3_Witness ==
  /\ ContractChild /\ proc = "exited" /\ Len(input) = MaxInput
  /\ NovelCount(fps, Len(input)) < Len(input) /\ Len(out) = MaxInput

\* C4: the stream written to the child's standard input is at every moment a
\* prefix of the novel input lines in input order, each once and unmodified,
\* and it is all of them once Input has closed the child's standard input.
C4_ChildReceivesNovelLines ==
  LET novel == NovelLines(fps, pos)
  IN  /\ IsPrefix(sent, novel)
      /\ stdin_closed => (pos = Len(input) /\ sent = novel)

\* Input has closed the child's stdin after an input with a duplicate line
\* and at least two novel lines.
C4_Witness ==
  /\ stdin_closed /\ Len(sent) >= 2 /\ Len(sent) < Len(input)
  /\ pos = Len(input) /\ sent = NovelLines(fps, pos)

\* Input waits for room in the pipe to the child.
InputBlocked ==
  ipc \in { "flush", "endflush" } /\ process # << >> /\ Len(child_stdin) = PipeCap
\* The child waits for room in the pipe from it.
ChildBlocked == backlog # << >> /\ Len(child_stdout) = PipeCap
\* Output waits for the queue or for a line of the child.
OutputBlocked ==
  \/ opc = "consume" /\ queue = << >>
  \/ opc = "readline" /\ child_stdout = << >>
\* The run has ended the normal way, everything written and consumed.
Completed ==
  /\ proc = "exited" /\ stdin_closed /\ queue = << >>
  /\ ipc = "done" /\ opc = "done" /\ child = "exited" /\ Len(out) = Len(input)

\* No party can take a step any more.
AtRest == ~ENABLED Next

\* C5: no deadlock and termination.  For a child that keeps the contract and
\* an upstream that can be read to its end, no state has Input, the child and
\* Output all blocked, and the run comes to rest only when it has ended the
\* normal way: the child's stdin closed, the sentinel consumed, every line
\* written, Input joined and the child reaped.  (Every step makes progress,
\* so under fair scheduling the run always comes to rest.)
C5_NoDeadlockTermination ==
  (ContractChild /\ ~faulty) =>
    /\ ~(InputBlocked /\ ChildBlocked /\ OutputBlocked)
    /\ AtRest => Completed

\* C6: transparency for an identity child.  With an echoing child and the
\* default key the lines written are always a prefix of the input lines, and
\* are the input lines when the run has completed.
C6_IdentityTransparency ==
  (childKind = "cat" /\ columns_args = << -1 >>) =>
    /\ IsPrefix(out, input)
    /\ proc = "exited" => out = input

\* C7: exit-code propagation.  In every run in which the child exits normally
\* with code c, the run ends with the wrapper exited through main's return
\* and the wrapper's exit status is c.
C7_ExitCodePropagation ==
  (AtRest /\ child = "exited" /\ status.exited) =>
    (proc = "exited" /\ exit_status = status.code)

\* C8: abnormal child termination.  When the child did not exit normally,
\* main returns 256 and the wrapper's 8-bit exit status is not zero.
C8_AbnormalStatusNonZero ==
  (proc = "exited" /\ ~status.exited) =>
    (MainReturn(status) = AbnormalStatus /\ exit_status # 0)

\* C9: upstream read error.  After a failed read of upstream stdin the run
\* does not come to rest before Input has closed the child's stdin and
\* enqueued the sentinel and Output has drained the queue and left its loop
\* on the sentinel.
C9_ReadErrorStillDrains ==
  (fatal = "stdin_read" /\ AtRest) =>
    (stdin_closed /\ ipc = "done" /\ opc = "done" /\ queue = << >>)

\* Output waits for a line of a slot whose data is NULL, and the child has
\* closed its standard output with nothing left in the pipe.
ShortChildOutput ==
  /\ opc = "readline" /\ cache[q.slot].null
  /\ child_stdout = << >> /\ child = "exited"

\* C10: short child output is fatal.  From a state in which the child has
\* closed its output while Output waits for the line of an absent slot, no
\* step ever stores a value in a slot, writes a line, or lets the wrapper
\* exit through the exit-status mapping; the state persists.
C10_ShortOutputFatal ==
  [][ ShortChildOutput =>
        /\ ShortChildOutput'
        /\ installs' = installs /\ out' = out
        /\ proc' # "exited" /\ mpc' = mpc ]_vars

\* The wrapper was ended by the missing line of a child that quit early,
\* after it had written some lines and before it had written all.
C10_Witness ==
  /\ proc = "aborted" /\ fatal = "child_eof" /\ childKind = "short"
  /\ ShortChildOutput /\ Len(out) >= 1 /\ Len(out) < Len(input)

(* --------------------- claims about the fingerprint --------------------- *)
\* The set of the elements of a sequence.
Range(s) == { s[i] : i \in 1..Len(s) }
\* The least and the greatest requested column of a key spec.
KeyMin(args) == CHOOSE m \in Range(args) : \A x \in Range(args) : m <= x
KeyMax(args) == CHOOSE m \in Range(args) : \A x \in Range(args) : m >= x
\* The requested columns of a line, in the order of the key, one after the
\* other with nothing between them.
RECURSIVE KeyBytes(_, _, _)
KeyBytes(cols, args, n) ==
  IF n = 0 THEN << >> ELSE KeyBytes(cols, args, n - 1) \o cols[args[n]]
\* The line is hashed whole under the key spec.
WholeLine(l, args, sep) ==
  KeyMin(args) <= 0 \/ Len(SplitColumns(l, sep)) < KeyMax(args)
\* The fingerprint the policy asks for.
PolicyFingerprint(l, args, sep) ==
  IF WholeLine(l, args, sep) THEN MurmurHashNative(l)
  ELSE MurmurHashNative(KeyBytes(SplitColumns(l, sep), args, Len(args)))
\* Two lines have the same bytes in every requested column.
SameKeyColumns(l1, l2, args, sep) ==
  \A i \in 1..Len(args) : SplitColumns(l1, sep)[args[i]] = SplitColumns(l2, sep)[args[i]]

\* C11: fingerprint policy.  The fingerprint is the hash of the whole line
\* when the least requested column is <= 0 or the line has strictly fewer
\* fields than the greatest requested column, and otherwise the hash of the
\* requested columns concatenated in the order of the key; two lines that
\* agree on the requested columns then have the same fingerprint, as a/x/b
\* and a/y/b under the key 1,3, and a/x/c has another one.
C11_FingerprintPolicy ==
  result.op = "Fingerprint" =>
    /\ result.fp1 = PolicyFingerprint(call.l1, call.args, call.sep)
    /\ result.fp2 = PolicyFingerprint(call.l2, call.args, call.sep)
    /\ ( /\ ~WholeLine(call.l1, call.args, call.sep)
         /\ ~WholeLine(call.l2, call.args, call.sep)
         /\ SameKeyColumns(call.l1, call.l2, call.args, call.sep) )
       => result.fp1 = result.fp2
    /\ ( /\ call.args = << 1, 3 >> /\ call.sep = << "T" >>
         /\ call.l1 = << "a", "T", "x", "T", "b" >>
         /\ call.l2 = << "a", "T", "x", "T", "c" >> )
       => result.fp1 # result.fp2

\* The key 1,3 applied to a/x/b and a/y/b gave one fingerprint.
C11_Witness ==
  /\ result.op = "Fingerprint"
  /\ call.args = << 1, 3 >> /\ call.sep = << "T" >>
  /\ call.l1 = << "a", "T", "x", "T", "b" >>
  /\ call.l2 = << "a", "T", "y", "T", "b" >>
  /\ result.fp1 = result.fp2
  /\ result.fp1 = MurmurHashNative(<< "a", "b" >>)

\* The line has exactly as many fields as the greatest requested column, and
\* every requested column is positive.
ExactlyMaxFields(l, args, sep) ==
  KeyMin(args) > 0 /\ Len(SplitColumns(l, sep)) = KeyMax(args)

\* C12 as stated: a line with exactly as many fields as the greatest requested
\* column is hashed whole.
C12_ExactlyMaxIsInsufficient ==
  (result.op = "Fingerprint" /\ ExactlyMaxFields(call.l1, call.args, call.sep))
    => result.fp1 = MurmurHashNative(call.l1)

\* C12 as amended: a line with exactly as many fields as the greatest
\* requested column is sufficient, its fingerprint is the hash of the
\* requested columns; only a line with strictly fewer fields is hashed whole.
C12_ExactlyMaxIsSufficient ==
  result.op = "Fingerprint" =>
    /\ ExactlyMaxFields(call.l1, call.args, call.sep) =>
         result.fp1 = MurmurHashNative(
           KeyBytes(SplitColumns(call.l1, call.sep), call.args, Len(call.args)))
    /\ (KeyMin(call.args) > 0
          /\ Len(SplitColumns(call.l1, call.sep)) < KeyMax(call.args)) =>
         result.fp1 = MurmurHashNative(call.l1)

\* A line of two fields under the key 2: its fingerprint is that of its
\* second field and not that of the line.
C12_Witness ==
  /\ result.op = "Fingerprint"
  /\ call.args = << 2 >> /\ call.sep = << "T" >>
  /\ call.l1 = << "a", "T", "b" >>
  /\ result.fp1 = MurmurHashNative(<< "b" >>)
  /\ result.fp1 # MurmurHashNative(call.l1)

\* The fingerprints of the lines of a sequence, in order, and as a set.
FingerprintsOf(lines, args, sep) ==
  [ i \in 1..Len(lines) |-> Fingerprint(lines[i], args, sep) ]
FingerprintSet(lines, args, sep) == Range(FingerprintsOf(lines, args, sep))
\* Two sequences hold the same elements the same number of times.
Count(s, x) == Cardinality({ i \in 1..Len(s) : s[i] = x })
SameMultiset(s, t) ==
  \A x \in Range(s) \cup Range(t) : Count(s, x) = Count(t, x)
\* The first lines of an input that carry each fingerprint, in input order.
RECURSIVE FirstCarriers(_, _, _)
FirstCarriers(lines, f, n) ==
  IF n = 0 THEN << >>
  ELSE IF IsNovel(f, n) THEN Append(FirstCarriers(lines, f, n - 1), lines[n])
       ELSE FirstCarriers(lines, f, n - 1)
\* The two inputs of the call carry the same set of fingerprints.
SameFingerprintSet ==
  FingerprintSet(call.in1, call.args, call.sep)
    = FingerprintSet(call.in2, call.args, call.sep)

\* C13 as stated: two inputs with the same set of distinct fingerprints cause
\* the same multiset of lines to be forwarded, whichever line carrying a
\* fingerprint comes first.
C13_SameForwardedLines ==
  (result.op = "Forward" /\ SameFingerprintSet)
    => SameMultiset(result.fwd1, result.fwd2)

\* C13 as amended: two inputs with the same set of distinct fingerprints cause
\* lines of the same fingerprints to be forwarded, one line for each distinct
\* fingerprint, and that line is the first line of its input that carries the
\* fingerprint; the bytes of the forwarded lines are the same in both runs
\* when the first carriers are.
C13_SameForwardedFingerprints ==
  (result.op = "Forward" /\ SameFingerprintSet) =>
    LET f1 == FingerprintsOf(call.in1, call.args, call.sep)
        f2 == FingerprintsOf(call.in2, call.args, call.sep)
    IN  /\ SameMultiset(FingerprintsOf(result.fwd1, call.args, call.sep),
                        FingerprintsOf(result.fwd2, call.args, call.sep))
        /\ Len(result.fwd1) = Cardinality(Range(f1))
        /\ Len(result.fwd2) = Cardinality(Range(f2))
        /\ result.fwd1 = FirstCarriers(call.in1, f1, Len(f1))
        /\ result.fwd2 = FirstCarriers(call.in2, f2, Len(f2))
        /\ SameMultiset(FirstCarriers(call.in1, f1, Len(f1)),
                        FirstCarriers(call.in2, f2, Len(f2)))
             => SameMultiset(result.fwd1, result.fwd2)

\* Under the key 1 the inputs a/b and a/c carry one and the same fingerprint,
\* and the two runs forwarded different lines with that fingerprint.
C13_Witness ==
  /\ result.op = "Forward"
  /\ call.args = << 1 >>
  /\ call.in1 = << << "a", "T", "b" >> >>
  /\ call.in2 = << << "a", "T", "c" >> >>
  /\ SameFingerprintSet
  /\ result.fwd1 = call.in1 /\ result.fwd2 = call.in2

(* ----------------------- claims about the start -------------------------- *)
\* The value the invocation gives to an option, or the default.
RECURSIVE Given(_, _, _)
Given(options, names, default) ==
  IF Len(options) < 2 THEN default
  ELSE IF options[1] \in names THEN options[2]
  ELSE Given(SubSeq(options, 3, Len(options)), names, default)
GivenKey == Given(call.options, { OptK, OptKey }, DefaultKey)
GivenSeparator ==
  Given(call.options, { OptT, OptFieldSeparator }, DefaultFieldSeparator)
\* An element of a key is an integer: an optional sign and then digits only.
IsInteger(tok) ==
  LET body == IF tok # << >> /\ tok[1] \in { "-", "+" } THEN Tail(tok) ELSE tok
  IN  body # << >> /\ \A i \in 1..Len(body) : IsDigit(body[i])
\* Some element of the comma-separated key is not an integer.
MalformedKey(key) ==
  \E i \in 1..Len(SplitColumns(key, << "," >>)) :
    ~IsInteger(SplitColumns(key, << "," >>)[i])

\* C14: argument partition.  For every invocation cache [options] -- CHILD
\* [CHILD_ARGS...] with zero, one or two wrapper options, the wrapper takes
\* exactly its own options and the child is exec'd with argv [CHILD,
\* CHILD_ARGS...]; no token of the child's command is taken as an option.
C14_ArgumentPartition ==
  (result.op = "main" /\ result.launched) =>
    /\ result.child_argv = call.command
    /\ result.opt.key = GivenKey
    /\ result.opt.field_separator = GivenSeparator

\* C15: malformed key spec.  A --key value with a non-integer element is
\* fatal in the argument parsing of main, before the child is spawned: no
\* child is launched and no line is read in such a run.
C15_MalformedKeyFatalAtParse ==
  (result.op = "main" /\ MalformedKey(GivenKey)) =>
    /\ ~result.launched
    /\ result.pc # "reading"

(* ------------------- claims about the queue and the slots ---------------- *)
\* How many handles Output has taken from the queue, the sentinel left out.
Dequeued ==
  LET taken == Len(produced) - Len(queue)
  IN  IF taken > Len(fps) THEN Len(fps) ELSE taken

\* C16: control-queue shape.  Input produces one non-null handle per input
\* line, in input order, then exactly one null sentinel as the last item; the
\* sentinel is produced only after every handle and after the child's
\* standard input has been closed, and nothing is produced after it.
C16_ControlQueueShape ==
  /\ Len(produced) <= Len(input) + 1
  /\ \A i \in 1..Len(produced) :
       IF i <= Len(input)
       THEN /\ ~produced[i].null
            /\ i <= pos /\ produced[i] = QueueEntry(fps[i])
       ELSE /\ produced[i] = Poison
            /\ stdin_closed /\ pos = Len(input) /\ process = << >>
            /\ ipc = "done"
  /\ ipc = "done" => (Len(produced) = Len(input) + 1 /\ stdin_closed)
  /\ queue = SubSeq(produced, Len(produced) - Len(queue) + 1, Len(produced))

\* Input has returned from a run on at least two lines: the queue received a
\* handle for each and then the sentinel.
C16_Witness ==
  /\ ipc = "done" /\ Len(input) >= 2
  /\ Len(produced) = Len(input) + 1
  /\ produced[Len(produced)] = Poison
  /\ ~produced[1].null /\ ~produced[2].null
  /\ stdin_closed

\* C17: slot monotonicity.  No cache entry is ever removed; an entry is
\* inserted by Input, absent; a present slot is never rewritten and never
\* reverts to absent; a slot changes only when Output stores the line it read
\* from the child, in the slot of the handle it took from the queue, which
\* Input inserted and produced before, and only when that slot is absent.
C17_SlotMonotonicity ==
  [][ /\ \A k \in DOMAIN cache :
           /\ k \in DOMAIN cache'
           /\ ~cache[k].null => cache'[k] = cache[k]
           /\ cache'[k] # cache[k] =>
                /\ opc = "readline" /\ opc' = "emit"
                /\ k = q.slot /\ cache[k].null /\ ~cache'[k].null
                /\ \E i \in 1..Dequeued : produced[i] = QueueEntry(k)
                /\ UNCHANGED inputVars
      /\ \A k \in DOMAIN cache' \ DOMAIN cache :
           /\ cache'[k] = EmptyPiece
           /\ ipc = "read" /\ pos' = pos + 1
           /\ UNCHANGED outputVars
    ]_vars

\* Output has stored a line in a slot and then emitted it again for a later
\* handle of the same fingerprint, while the slot kept its value.
C17_Witness ==
  /\ Len(installs) = 1 /\ Len(out) >= 2
  /\ fps[1] = fps[2]
  /\ ~cache[fps[1]].null
  /\ cache[fps[1]].bytes = installs[1][2]
  /\ out[2] = installs[1][2]

\* C18: empty responses are cached.  When the child's answer to a novel line
\* is the empty line, also when it is the very first answer of the run, the
\* store makes the slot present, so no slot is stored twice and a later line
\* with that fingerprint is emitted as the empty line without another read
\* from the child.
C18_EmptyResponsesAreCached ==
  /\ \A i \in 1..Len(installs) :
       /\ ~cache[installs[i][1]].null
       /\ cache[installs[i][1]].bytes = installs[i][2]
  /\ \A i, j \in 1..Len(installs) : i < j => installs[i][1] # installs[j][1]

\* C19: positional matching.  Whenever Output has taken a handle from the
\* queue, it reads a line from the child exactly if the handle is the first
\* one for its fingerprint; the number of lines read from the child is the
\* number of novel handles taken, and the k-th line read is stored in the slot
\* of the k-th novel input line, however far Input has run ahead.
C19_PositionalMatching ==
  /\ opc = "readline" => IsNovel(fps, Dequeued)
  /\ Len(installs) =
       NovelCount(fps, Dequeued) - (IF opc = "readline" THEN 1 ELSE 0)
  /\ \A k \in 1..Len(installs) :
       \E i \in 1..Dequeued :
         /\ IsNovel(fps, i) /\ NovelCount(fps, i) = k
         /\ installs[k][1] = fps[i]

\* Two lines whose requested columns differ and concatenate to the same bytes.
Collide(l1, l2) ==
  LET c1 == SplitColumns(l1, field_separator)
      c2 == SplitColumns(l2, field_separator)
  IN  /\ ~WholeLine(l1, columns_args, field_separator)
      /\ ~WholeLine(l2, columns_args, field_separator)
      /\ \E i \in 1..Len(columns_args) : c1[columns_args[i]] # c2[columns_args[i]]
      /\ KeyBytes(c1, columns_args, Len(columns_args))
           = KeyBytes(c2, columns_args, Len(columns_args))

\* C20: key concatenation is not injective.  Under a key of several columns,
\* two lines whose requested columns differ but concatenate to the same bytes
\* get the same fingerprint: the second is a cache hit, only first carriers
\* of a fingerprint are forwarded to the child, and the second line is
\* emitted with the output of the first.
C20_ConcatenationCollides ==
  /\ sent \o process = FirstCarriers(input, fps, Len(fps))
  /\ \A i, j \in 1..Len(fps) :
       (i < j /\ Collide(input[i], input[j])) =>
         /\ fps[i] = fps[j]
         /\ ~IsNovel(fps, j)
         /\ j <= Len(out) => out[j] = out[i]

(* ------------------ the parsers agree with their libraries --------------- *)
\* ParseArgs takes a value from the option's own token and a long name from a
\* prefix, and rejects an unknown option and a short option as a value.
ParseArgsExamples ==
  result.op = "ParseArgs" =>
    /\ call.args = << Cache, << "-", "-", "k", "e", "y", "=", "1" >>, << "1" >> >>
         => (result.ok /\ result.opt.key = << "1" >>)
    /\ call.args = << Cache, << "-", "k", "1" >> >>
         => (result.ok /\ result.opt.key = << "1" >>)
    /\ call.args = << Cache, << "-", "-", "k", "e" >>, << "1" >> >>
         => (result.ok /\ result.opt.key = << "1" >>)
    /\ call.args = << Cache, OptK, OptT, << "1" >> >> => ~result.ok
    /\ call.args = << Cache, << "-", "-", "k", "e", "y", "=" >> >> => ~result.ok
    /\ call.args = << Cache, << "-", "-", "k", "e", "y", "=" >>, << "1" >> >>
         => ~result.ok
    /\ call.args = << Cache, OptK, << "-", "-", "k", "e", "y", "=" >> >> => ~result.ok
    /\ call.args = << Cache, << "-", "-", "=", "1" >> >>
         => (result.ok /\ result.opt.key = DefaultKey)
    /\ call.args = << Cache, << "-", "-", "-", "k" >>, << "1" >> >>
         => (result.ok /\ result.opt.key = << "1" >>)
    /\ call.args = << Cache, << "1" >>, DashN >> => ~result.ok
    /\ call.args = << Cache, DashDash, DashN >> => result.ok

\* The key loop skips white space before a number and throws for a value that
\* does not fit an int.
ColumnsArgsExamples ==
  result.op = "ColumnsArgs" =>
    /\ call.key = << " ", "1" >> => (result.ok /\ result.value = << 1 >>)
    /\ call.key = << "1", ",", " ", "9" >> => (result.ok /\ result.value = << 1, 9 >>)
    /\ call.key = << "T", "-", "1" >> => (result.ok /\ result.value = << -1 >>)
    /\ call.key = << "\n", "1" >> => (result.ok /\ result.value = << 1 >>)
    /\ call.key = << "1", ",", "\n", "9" >> => (result.ok /\ result.value = << 1, 9 >>)
    /\ call.key = << "-", " ", "1" >> => ~result.ok
    /\ call.key = << "1", "x" >> => (result.ok /\ result.value = << 1 >>)
    /\ call.key = << "2", "1", "4", "7", "4", "8", "3", "6", "4", "7" >>
         => (result.ok /\ result.value = << IntMax >>)
    /\ call.key = << "2", "1", "4", "7", "4", "8", "3", "6", "4", "8" >> => ~result.ok
    /\ call.key = << "-", "2", "1", "4", "7", "4", "8", "3", "6", "4", "8" >>
         => (result.ok /\ result.value = << 0 - IntMax - 1 >>)
    /\ call.key = << "9", "9", "9", "9", "9", "9", "9", "9", "9", "9", "9" >>
         => ~result.ok

====
